---- MODULE Spec2Model ----
(***************************************************************************)
(* Model of package exception (tae2089/exception): the CustomError type,   *)
(* its options, the Wrap* entry points, stack capture and the inspection   *)
(* functions, together with the call sites of example/main.go.             *)
(*                                                                         *)
(* Strings that are only compared (messages) are TLA+ strings.  Strings    *)
(* that are built and rendered (traces, PrintTrace) are sequences of       *)
(* tokens, the token "\n" being the line separator.                        *)
(***************************************************************************)
EXTENDS Integers, Sequences, FiniteSets, TLC

\* ------------------------------------------------------------------ bounds
\* Number of operations (New / Wrap*) of one sequential run.
MaxOps == 3
\* Number of goroutines wrapping the same error concurrently.
NumProcs == 2

\* --------------------------------------------------------------- constants
ErrorBadRequest == 400
ErrorUnauthorized == 401
ErrorForbidden == 403
ErrorNotFound == 404
ErrorInternalServer == 500
ErrorNotImplemented == 501
ErrorServiceUnavailable == 503

\* The skip argument of runtime.Callers and the size of the pcs array.
CallersSkip == 3
PcsLen == 1

\* Source lines of the library frames on the stack during a wrap.
LineWrapErrorCall == 95
LineWrapTrace == 112
LineWrapMessageWithCode == 116
LineWrapMessage == 120
LineCallers == 125
\* Source lines of example/main.go.
LineMainCall == 11
LineConverterCall == 18
LineConverterWrap == 20
LineCheckerWrap == 27

\* ------------------------------------------------------------------ inputs
\* Messages a caller passes; the empty message is a valid input.
Messages == {"", "converter - v is 0"}
\* Codes a caller passes to New and WrapMessageWithCode.
Codes == {ErrorNotFound}

\* ------------------------------------------------------------ error values
\* A Go error interface value: nil, a plain error (errors.New, as in
\* example/main.go) or a *CustomError pointing at a heap cell.
NilErr == [t |-> "nil", v |-> 0]
Plain(i) == [t |-> "plain", v |-> i]
Ptr(o) == [t |-> "ptr", v |-> o]
PlainErrors == {Plain(1)}

\* err.(*CustomError)
IsCustomError(err) == err.t = "ptr"

\* &CustomError{}: every field at its zero value.
ZeroCustomError ==
    [code |-> 0, Message |-> "", Trace |-> <<>>, PreviousTraces |-> <<>>,
     Err |-> NilErr]

\* ----------------------------------------------------------------- options
WithCode(code) == [opt |-> "code", code |-> code]
WithMessage(msg) == [opt |-> "message", msg |-> msg]
WithTrace(trace) == [opt |-> "trace", trace |-> trace]
WithPreviousTraces(traces) == [opt |-> "previous", traces |-> traces]
WithCause(err) == [opt |-> "cause", err |-> err]

\* opt(e)
ApplyOpt(e, o) ==
    CASE o.opt = "code" -> [e EXCEPT !.code = o.code]
      [] o.opt = "message" -> [e EXCEPT !.Message = o.msg]
      [] o.opt = "trace" -> [e EXCEPT !.Trace = o.trace]
      [] o.opt = "previous" -> [e EXCEPT !.PreviousTraces = o.traces]
      [] o.opt = "cause" -> [e EXCEPT !.Err = o.err]

\* for _, opt := range opts { opt(e) }
RECURSIVE ApplyOpts(_, _)
ApplyOpts(e, opts) ==
    IF opts = <<>> THEN e
    ELSE ApplyOpts(ApplyOpt(e, Head(opts)), Tail(opts))

newCustomError(opts) == ApplyOpts(ZeroCustomError, opts)

\* ------------------------------------------------------------ string tools
NL == "\n"

DigitChars == <<"0", "1", "2", "3", "4", "5", "6", "7", "8", "9">>

\* fmt's %d of a non-negative int, as a sequence of digit tokens.
RECURSIVE Itoa(_)
Itoa(n) ==
    IF n < 10 THEN <<DigitChars[n + 1]>>
    ELSE Itoa(n \div 10) \o <<DigitChars[(n % 10) + 1]>>

\* strings.Join(elems, "\n")
RECURSIVE Join(_)
Join(elems) ==
    IF elems = <<>> THEN <<>>
    ELSE IF Len(elems) = 1 THEN elems[1]
    ELSE elems[1] \o <<NL>> \o Join(Tail(elems))

\* The lines of a rendered string: the pieces between "\n" tokens.
RECURSIVE SplitLines(_, _)
SplitLines(s, acc) ==
    IF s = <<>> THEN <<acc>>
    ELSE IF Head(s) = NL THEN <<acc>> \o SplitLines(Tail(s), <<>>)
    ELSE SplitLines(Tail(s), Append(acc, Head(s)))

Lines(s) == SplitLines(s, <<>>)

\* ------------------------------------------------------------ stack frames
Frame(file, line, fn) == [File |-> file, Line |-> line, Function |-> fn]

CallersFrame == Frame("runtime/extern.go", 0, "runtime.Callers")
CaptureFrame == Frame("exception.go", LineCallers, "exception.captureStackTrace")
WrapErrorFrame == Frame("exception.go", LineWrapErrorCall, "exception.wrapError")
WrapTraceFrame == Frame("exception.go", LineWrapTrace, "exception.WrapTrace")
WrapMessageWithCodeFrame ==
    Frame("exception.go", LineWrapMessageWithCode, "exception.WrapMessageWithCode")
WrapMessageFrame == Frame("exception.go", LineWrapMessage, "exception.WrapMessage")

MainFrame == Frame("main.go", LineMainCall, "main.main")
ConverterCallFrame == Frame("main.go", LineConverterCall, "main.converter")
ConverterWrapFrame == Frame("main.go", LineConverterWrap, "main.converter")
CheckerWrapFrame == Frame("main.go", LineCheckerWrap, "main.checker")

\* The goroutine's stack at the two wrap sites of example/main.go,
\* innermost frame first.
CheckerStack == <<CheckerWrapFrame, ConverterCallFrame, MainFrame>>
ConverterStack == <<ConverterWrapFrame, MainFrame>>
SiteStacks == {CheckerStack, ConverterStack}

\* fmt.Sprintf("%s:%d %s", frame.File, frame.Line, frame.Function)
FormatFrame(f) == <<f.File, ":">> \o Itoa(f.Line) \o <<" ", f.Function>>

\* runtime.Callers(skip, pcs): the frames recorded, skip = 0 being the frame
\* of Callers itself.
Callers(skip, cap, stack) ==
    IF skip >= Len(stack) THEN <<>>
    ELSE SubSeq(stack, skip + 1,
                IF skip + cap <= Len(stack) THEN skip + cap ELSE Len(stack))

\* captureStackTrace(), run with `stack` as the goroutine's stack.
captureStackTrace(stack) ==
    LET pcs == Callers(CallersSkip, PcsLen, stack)
    IN IF Len(pcs) = 0 THEN <<"unknown">>
       ELSE FormatFrame(pcs[1])

\* The stack inside captureStackTrace when a user site called entry point
\* `entry`.
StackAtCapture(entry, siteStack) ==
    <<CallersFrame, CaptureFrame, WrapErrorFrame, entry>> \o siteStack

\* -------------------------------------------------------------- inspection
\* Error() without the fallback.
Error_NoFallback(e) == e.Message

\* (e *CustomError) Error()
Error(e) == IF e.Message = "" THEN "unknown error" ELSE e.Message

\* (e *CustomError) Cause() / Unwrap()
CauseOf(e) == e.Err

\* (e *CustomError) Code()
Code(e) == e.code

\* (e *CustomError) PrintTrace()
PrintTrace(e) ==
    IF e.Trace = <<>> THEN <<>>
    ELSE Join(<<e.Trace>> \o e.PreviousTraces)

\* Trace(err)
Trace(h, err) == IF IsCustomError(err) THEN PrintTrace(h[err.v]) ELSE <<>>

\* Cause(err): follows the cause chain.  A chain through more *CustomError
\* links than there are objects revisits one, and the recursion never ends:
\* Diverges stands for that.
Diverges == [t |-> "diverges", v |-> 0]

RECURSIVE CauseRec(_, _, _)
CauseRec(h, err, fuel) ==
    IF IsCustomError(err) /\ CauseOf(h[err.v]) # NilErr
    THEN IF fuel = 0 THEN Diverges
         ELSE CauseRec(h, CauseOf(h[err.v]), fuel - 1)
    ELSE err

Cause(h, err) == CauseRec(h, err, Len(h))

\* Unwrap(err)
Unwrap(h, err) == IF IsCustomError(err) THEN CauseOf(h[err.v]) ELSE err

\* (e *CustomError) Is(target)
Is(h, e, target) == IF IsCustomError(target) THEN e.code = h[target.v].code ELSE FALSE

\* ------------------------------------------------------------------- state
VARIABLES
    heap,    \* the allocated CustomError objects, by address 1..Len(heap)
    log,     \* history: per object, its origin and the wrap calls applied
    last,    \* history: the last call, its argument and its result
    nops,    \* number of calls made
    pc,      \* concurrent wraps: each goroutine's position in wrapError
    loc,     \* concurrent wraps: each goroutine's local variables
    hist0    \* history: the trace history before the concurrent wraps

vars == <<heap, log, last, nops, pc, loc, hist0>>
raceVars == <<pc, loc, hist0>>
seqVars == <<log, last, nops>>

Procs == 1..NumProcs

\* History value before any call.
NoCall == [op |-> "none", arg |-> NilErr, ret |-> NilErr, msg |-> "", code |-> 0]

\* A goroutine's locals before it calls a wrap function.
NoLocals ==
    [trace |-> <<>>, oldTrace |-> <<>>, oldPrevious |-> <<>>,
     haveTrace |-> FALSE, havePrevious |-> FALSE,
     previousTraces |-> <<>>, opts |-> <<>>]

Allocated == 1..Len(heap)

\* Non-nil error values a caller can hold and pass to a Wrap* function.
ErrValues == PlainErrors \cup {Ptr(o) : o \in Allocated}

\* wrapError nesting a new wrapper around an existing *CustomError.
wrapError_Nest(h, err, stack, opts) ==
    LET trace == captureStackTrace(stack)
        allOpts == <<WithTrace(trace), WithPreviousTraces(<<>>),
                     WithCause(err)>> \o opts
    IN [heap |-> Append(h, newCustomError(allOpts)), ret |-> Ptr(Len(h) + 1)]

\* wrapError with the options taken from a helper: `build` gives the options
\* applied to an existing object, `previous` its new PreviousTraces.
WrapErrorWith(h, err, stack, opts, build(_, _), previous(_)) ==
    LET trace == captureStackTrace(stack)
    IN IF IsCustomError(err)
       THEN LET customErr == h[err.v]
                updated == [customErr EXCEPT !.Trace = trace,
                                             !.PreviousTraces = previous(customErr)]
            IN [heap |-> [h EXCEPT ![err.v] = ApplyOpts(updated, build(err, opts))],
                ret |-> err]
       ELSE LET allOpts == <<WithTrace(trace), WithPreviousTraces(<<>>),
                             WithCause(err)>> \o opts
            IN [heap |-> Append(h, newCustomError(allOpts)),
                ret |-> Ptr(Len(h) + 1)]

PushOld(customErr) == <<customErr.Trace>> \o customErr.PreviousTraces
KeepOpts(err, opts) == opts

\* wrapError dropping the old Trace instead of pushing it.
DropOld(customErr) == customErr.PreviousTraces
wrapError_DropOld(h, err, stack, opts) ==
    WrapErrorWith(h, err, stack, opts, KeepOpts, DropOld)

\* wrapError appending the old Trace after the older ones.
AppendOld(customErr) == customErr.PreviousTraces \o <<customErr.Trace>>
wrapError_AppendOld(h, err, stack, opts) ==
    WrapErrorWith(h, err, stack, opts, KeepOpts, AppendOld)

\* wrapError not applying the options to an existing object.
NoOpts(err, opts) == <<>>
wrapError_NoOpts(h, err, stack, opts) ==
    WrapErrorWith(h, err, stack, opts, NoOpts, PushOld)

\* wrapError applying WithCause(err) to an existing object as well.
CauseToo(err, opts) == <<WithCause(err)>> \o opts
wrapError_CauseToo(h, err, stack, opts) ==
    WrapErrorWith(h, err, stack, opts, CauseToo, PushOld)

\* wrapError(err, opts...), run on heap h with `stack` as the stack inside
\* captureStackTrace: the heap after the call and the returned error.
wrapError(h, err, stack, opts) ==
    LET trace == captureStackTrace(stack)
    IN IF IsCustomError(err)
       THEN LET customErr == h[err.v]
                previousTraces == <<customErr.Trace>> \o customErr.PreviousTraces
                updated == [customErr EXCEPT !.Trace = trace,
                                             !.PreviousTraces = previousTraces]
            IN [heap |-> [h EXCEPT ![err.v] = ApplyOpts(updated, opts)],
                ret |-> err]
       ELSE LET allOpts == <<WithTrace(trace), WithPreviousTraces(<<>>),
                             WithCause(err)>> \o opts
            IN [heap |-> Append(h, newCustomError(allOpts)),
                ret |-> Ptr(Len(h) + 1)]

\* History bookkeeping of one wrap call.
Logged(err, r, stack, siteStack) ==
    LET call == [trace |-> captureStackTrace(stack), site |-> Head(siteStack)]
    IN IF IsCustomError(err)
       THEN [log EXCEPT ![err.v].calls = Append(@, call)]
       ELSE Append(log, [origin |-> err, calls |-> <<call>>])

DoWrap(op, err, entry, siteStack, opts, msg, code) ==
    LET stack == StackAtCapture(entry, siteStack)
        r == wrapError(heap, err, stack, opts)
    IN /\ nops < MaxOps
       /\ heap' = r.heap
       /\ log' = Logged(err, r, stack, siteStack)
       /\ last' = [op |-> op, arg |-> err, ret |-> r.ret, msg |-> msg,
                   code |-> code]
       /\ nops' = nops + 1
       /\ UNCHANGED raceVars

Init ==
    /\ heap = <<>>
    /\ log = <<>>
    /\ last = NoCall
    /\ nops = 0
    /\ pc = [p \in Procs |-> "idle"]
    /\ loc = [p \in Procs |-> NoLocals]
    /\ hist0 = <<>>

\* New(msg, code)
New ==
    \E msg \in Messages, code \in Codes :
        /\ nops < MaxOps
        /\ heap' = Append(heap, newCustomError(<<WithMessage(msg), WithCode(code)>>))
        /\ log' = Append(log, [origin |-> [t |-> "new", v |-> 0], calls |-> <<>>])
        /\ last' = [op |-> "New", arg |-> NilErr, ret |-> Ptr(Len(heap) + 1),
                    msg |-> msg, code |-> code]
        /\ nops' = nops + 1
        /\ UNCHANGED raceVars

\* WrapTrace forcing the internal-server code as WrapMessage does.
WrapTrace_ForceCode ==
    \E err \in ErrValues, siteStack \in SiteStacks :
        DoWrap("WrapTrace", err, WrapTraceFrame, siteStack,
               <<WithMessage("An error occurred"), WithCode(ErrorInternalServer)>>,
               "An error occurred", 0)

\* WrapTrace(err)
WrapTrace ==
    \E err \in ErrValues, siteStack \in SiteStacks :
        DoWrap("WrapTrace", err, WrapTraceFrame, siteStack,
               <<WithMessage("An error occurred")>>, "An error occurred", 0)

\* WrapMessageWithCode(err, errCode, msg)
WrapMessageWithCode ==
    \E err \in ErrValues, siteStack \in SiteStacks, errCode \in Codes,
       msg \in Messages :
        DoWrap("WrapMessageWithCode", err, WrapMessageWithCodeFrame, siteStack,
               <<WithMessage(msg), WithCode(errCode)>>, msg, errCode)

\* WrapMessage(err, msg)
WrapMessage ==
    \E err \in ErrValues, siteStack \in SiteStacks, msg \in Messages :
        DoWrap("WrapMessage", err, WrapMessageFrame, siteStack,
               <<WithMessage(msg), WithCode(ErrorInternalServer)>>, msg,
               ErrorInternalServer)

Next == New \/ WrapTrace \/ WrapMessageWithCode \/ WrapMessage

Spec == Init /\ [][Next]_vars

\* ---------------------------------------------------- concurrent wrapping
\* Several goroutines call a Wrap* function on the same *CustomError (address
\* 1) without synchronisation.  wrapError's loads and stores of the shared
\* object are separate steps; the two loads of line 98 happen in either
\* order.

\* The whole trace history of an object, most recent first.
History(e) == <<e.Trace>> \o e.PreviousTraces

\* The error of example/main.go after checker's wrap, and after converter's.
HeapAfterChecker ==
    wrapError(<<>>, Plain(1), StackAtCapture(WrapMessageFrame, CheckerStack),
              <<WithMessage("v is 0"), WithCode(ErrorInternalServer)>>).heap
HeapAfterConverter ==
    wrapError(HeapAfterChecker, Ptr(1),
              StackAtCapture(WrapMessageFrame, ConverterStack),
              <<WithMessage("converter - v is 0"),
                WithCode(ErrorInternalServer)>>).heap

RaceInit ==
    /\ heap \in {HeapAfterChecker, HeapAfterConverter}
    /\ log = <<>>
    /\ last = NoCall
    /\ nops = 0
    /\ pc = [p \in Procs |-> "idle"]
    /\ loc = [p \in Procs |-> NoLocals]
    /\ hist0 = History(heap[1])

\* The entry points a goroutine may call, with the options each passes on.
RaceCalls ==
    { [entry |-> WrapTraceFrame,
       opts |-> <<WithMessage("An error occurred")>>],
      [entry |-> WrapMessageFrame,
       opts |-> <<WithMessage("converter - v is 0"),
                  WithCode(ErrorInternalServer)>>],
      [entry |-> WrapMessageWithCodeFrame,
       opts |-> <<WithMessage(""), WithCode(ErrorNotFound)>>] }

\* Lines 95-97: capture the trace, test the type; nothing shared is touched.
RaceCall(p) ==
    /\ pc[p] = "idle"
    /\ \E c \in RaceCalls :
        loc' = [loc EXCEPT ![p].trace =
                    captureStackTrace(StackAtCapture(c.entry, ConverterStack)),
                           ![p].opts = c.opts]
    /\ pc' = [pc EXCEPT ![p] = "read"]
    /\ UNCHANGED <<heap, hist0, seqVars>>

\* previousTraces = append([]string{customErr.Trace}, customErr.PreviousTraces...)
\* once both operands are loaded.
AfterLoad(l) ==
    IF l.haveTrace /\ l.havePrevious
    THEN [l EXCEPT !.previousTraces = <<l.oldTrace>> \o l.oldPrevious]
    ELSE l

\* Line 98: load customErr.Trace
RaceReadTrace(p) ==
    /\ pc[p] = "read"
    /\ ~loc[p].haveTrace
    /\ LET l == [loc[p] EXCEPT !.oldTrace = heap[1].Trace, !.haveTrace = TRUE]
       IN /\ loc' = [loc EXCEPT ![p] = AfterLoad(l)]
          /\ pc' = [pc EXCEPT ![p] = IF l.havePrevious THEN "writeTrace" ELSE "read"]
    /\ UNCHANGED <<heap, hist0, seqVars>>

\* Line 98: load customErr.PreviousTraces
RaceReadPrevious(p) ==
    /\ pc[p] = "read"
    /\ ~loc[p].havePrevious
    /\ LET l == [loc[p] EXCEPT !.oldPrevious = heap[1].PreviousTraces,
                               !.havePrevious = TRUE]
       IN /\ loc' = [loc EXCEPT ![p] = AfterLoad(l)]
          /\ pc' = [pc EXCEPT ![p] = IF l.haveTrace THEN "writeTrace" ELSE "read"]
    /\ UNCHANGED <<heap, hist0, seqVars>>

\* Line 100: customErr.Trace = trace
RaceWriteTrace(p) ==
    /\ pc[p] = "writeTrace"
    /\ heap' = [heap EXCEPT ![1].Trace = loc[p].trace]
    /\ pc' = [pc EXCEPT ![p] = "writePrevious"]
    /\ UNCHANGED <<loc, hist0, seqVars>>

\* Line 101 storing the loaded slice without the old Trace pushed on it.
StoredPrevious_NoPush(l) == l.oldPrevious

\* The slice stored by line 101.
StoredPrevious(l) == l.previousTraces

\* Line 101: customErr.PreviousTraces = previousTraces
RaceWritePrevious(p) ==
    /\ pc[p] = "writePrevious"
    /\ heap' = [heap EXCEPT ![1].PreviousTraces = StoredPrevious(loc[p])]
    /\ pc' = [pc EXCEPT ![p] = "opts"]
    /\ UNCHANGED <<loc, hist0, seqVars>>

\* Lines 102-104: one iteration of the option loop
RaceApplyOpt(p) ==
    /\ pc[p] = "opts"
    /\ loc[p].opts # <<>>
    /\ heap' = [heap EXCEPT ![1] = ApplyOpt(@, Head(loc[p].opts))]
    /\ loc' = [loc EXCEPT ![p].opts = Tail(@)]
    /\ UNCHANGED <<pc, hist0, seqVars>>

\* Line 105: return customErr
RaceReturn(p) ==
    /\ pc[p] = "opts"
    /\ loc[p].opts = <<>>
    /\ pc' = [pc EXCEPT ![p] = "done"]
    /\ UNCHANGED <<heap, loc, hist0, seqVars>>

RaceNext ==
    \E p \in Procs :
        \/ RaceCall(p)
        \/ RaceReadTrace(p)
        \/ RaceReadPrevious(p)
        \/ RaceWriteTrace(p)
        \/ RaceWritePrevious(p)
        \/ RaceApplyOpt(p)
        \/ RaceReturn(p)

SpecRace == RaceInit /\ [][RaceNext]_vars

\* ------------------------------------------------------------- properties
WrapOps == {"WrapTrace", "WrapMessage", "WrapMessageWithCode"}

IsPlain(err) == err.t = "plain"

\* Objects first created by wrapping a plain error.
FromPlain == {o \in Allocated : IsPlain(log[o].origin)}

\* Objects created by New.
FromNew == {o \in Allocated : log[o].origin.t = "new"}

Reverse(s) == [i \in 1..Len(s) |-> s[Len(s) + 1 - i]]

\* The traces captured by the wrap calls on object o, most recent first.
CapturedRecentFirst(o) ==
    Reverse([k \in 1..Len(log[o].calls) |-> log[o].calls[k].trace])

\* The call sites of the wrap calls on object o, rendered, most recent first.
SitesRecentFirst(o) ==
    Reverse([k \in 1..Len(log[o].calls) |-> FormatFrame(log[o].calls[k].site)])

\* C1: a chain of Wrap* calls started on a plain error p keeps returning the
\* object the first call created (a wrap of a *CustomError returns its
\* argument and allocates nothing), and that object's Cause() stays p.
C1_SameObjectSameCause ==
    /\ Len(heap) = Len(log)
    /\ (last.op \in WrapOps /\ IsCustomError(last.arg)) => last.ret = last.arg
    /\ \A o \in FromPlain : CauseOf(heap[o]) = log[o].origin

C1_Witness ==
    \E o \in FromPlain :
        /\ Len(log[o].calls) >= 2
        /\ last.op \in WrapOps
        /\ last.arg = Ptr(o)

\* C2 as stated: from a plain error, PreviousTraces has length 2 after the
\* second wrap and length 3 after the third.
C2_Original ==
    \A o \in FromPlain :
        /\ Len(log[o].calls) = 2 => Len(heap[o].PreviousTraces) = 2
        /\ Len(log[o].calls) = 3 => Len(heap[o].PreviousTraces) = 3

\* C2 amended: from a plain error, PreviousTraces has length 1 after the
\* second wrap and length 2 after the third.
C2_Amended ==
    \A o \in FromPlain :
        /\ Len(log[o].calls) = 2 => Len(heap[o].PreviousTraces) = 1
        /\ Len(log[o].calls) = 3 => Len(heap[o].PreviousTraces) = 2

C2_Witness ==
    \E o \in FromPlain : Len(log[o].calls) = 3 /\ Len(heap[o].PreviousTraces) = 2

\* C3: after n >= 1 wraps of a chain started on a plain error, PrintTrace()
\* and Trace(err) are non-empty and have exactly 1 + len(PreviousTraces) = n
\* lines, the captured traces t_n, ..., t_1, most recent first; Trace of a
\* plain error is empty.
C3_TraceLines ==
    /\ \A o \in FromPlain :
        LET n == Len(log[o].calls)
            out == PrintTrace(heap[o])
        IN /\ n >= 1
           /\ out # <<>>
           /\ Trace(heap, Ptr(o)) = out
           /\ Len(Lines(out)) = 1 + Len(heap[o].PreviousTraces)
           /\ Len(Lines(out)) = n
           /\ Lines(out) = CapturedRecentFirst(o)
    /\ \A p \in PlainErrors : Trace(heap, p) = <<>>

C3_Witness ==
    \E o \in FromPlain :
        /\ Len(log[o].calls) = 3
        /\ log[o].calls[1].trace # log[o].calls[2].trace
        /\ log[o].calls[2].trace # log[o].calls[3].trace
        /\ log[o].calls[1].trace # log[o].calls[3].trace

\* C4: the trace a Wrap* call records names the user call site that invoked
\* the public wrap function, so PrintTrace() lists the call sites of the
\* wraps, most recent first (converter's, then checker's, in the example).
C4_CallSite ==
    \A o \in FromPlain : Lines(PrintTrace(heap[o])) = SitesRecentFirst(o)

\* C5 as stated: WrapTrace of a plain error gives code 500 and the message
\* "An error occurred".
C5_Original ==
    (last.op = "WrapTrace" /\ IsPlain(last.arg)) =>
        /\ Code(heap[last.ret.v]) = ErrorInternalServer
        /\ heap[last.ret.v].Message = "An error occurred"

\* C5 amended: WrapTrace of a plain error gives the unset code 0 and the
\* message "An error occurred"; WrapTrace of an existing *CustomError leaves
\* its code as it was.
C5_Amended ==
    [][(nops' = nops + 1 /\ last'.op = "WrapTrace") =>
        /\ IsPlain(last'.arg) =>
            /\ Code(heap'[last'.ret.v]) = 0
            /\ heap'[last'.ret.v].Message = "An error occurred"
        /\ IsCustomError(last'.arg) =>
            /\ Code(heap'[last'.arg.v]) = Code(heap[last'.arg.v])
            /\ heap'[last'.arg.v].Message = "An error occurred"]_vars

C5_Witness ==
    /\ last.op = "WrapTrace"
    /\ IsCustomError(last.arg)
    /\ Code(heap[last.arg.v]) = ErrorNotFound
    /\ \E o \in FromPlain : Len(log[o].calls) = 1 /\ Code(heap[o]) = 0

\* C6: WrapMessage(err, msg) yields code 500 and message msg, and
\* WrapMessageWithCode(err, c, msg) yields code c and message msg, whatever
\* code and message an already annotated err carried.
C6_Overrides ==
    /\ last.op = "WrapMessage" =>
        /\ Code(heap[last.ret.v]) = ErrorInternalServer
        /\ heap[last.ret.v].Message = last.msg
    /\ last.op = "WrapMessageWithCode" =>
        /\ Code(heap[last.ret.v]) = last.code
        /\ heap[last.ret.v].Message = last.msg

C6_Witness ==
    /\ last.op = "WrapMessage"
    /\ IsCustomError(last.arg)
    /\ last.arg.v \in FromNew
    /\ Len(log[last.arg.v].calls) = 1
    /\ last.msg = ""

\* C7: Error() is never the empty string: it is the message when that is
\* non-empty and "unknown error" otherwise.
C7_ErrorNonEmpty ==
    \A o \in Allocated :
        /\ Error(heap[o]) # ""
        /\ heap[o].Message # "" => Error(heap[o]) = heap[o].Message
        /\ heap[o].Message = "" => Error(heap[o]) = "unknown error"

C7_Witness ==
    \E o \in Allocated :
        /\ heap[o].Message = ""
        /\ Len(log[o].calls) >= 1
        /\ last.ret = Ptr(o)

\* C8: Cause(err) terminates and returns the end of the cause chain: the
\* plain error first wrapped, never a *CustomError that has a cause; a plain
\* error or a *CustomError without cause is returned as it is.
C8_CauseTerminal ==
    \A err \in ErrValues :
        LET c == Cause(heap, err)
        IN /\ c # Diverges
           /\ IsCustomError(c) => CauseOf(heap[c.v]) = NilErr
           /\ (IsCustomError(err) /\ err.v \in FromPlain) => c = log[err.v].origin
           /\ (~IsCustomError(err) \/ CauseOf(heap[err.v]) = NilErr) => c = err

C8_Witness ==
    \E o \in FromPlain :
        /\ Len(log[o].calls) = 3
        /\ Cause(heap, Ptr(o)) = log[o].origin

\* C10: every entry of PreviousTraces is a non-empty trace captured by an
\* earlier wrap, so PrintTrace() has no empty line, also when the first wrap
\* is applied to an error made by New.
C10_NoEmptyTrace ==
    \A o \in Allocated :
        /\ \A i \in DOMAIN heap[o].PreviousTraces :
            /\ heap[o].PreviousTraces[i] # <<>>
            /\ \E k \in DOMAIN log[o].calls :
                log[o].calls[k].trace = heap[o].PreviousTraces[i]
        /\ heap[o].Trace # <<>> =>
            \A i \in DOMAIN Lines(PrintTrace(heap[o])) :
                Lines(PrintTrace(heap[o]))[i] # <<>>
\* All concurrent wrap calls have returned.
AllDone == \A p \in Procs : pc[p] = "done"

Count(s, x) == Cardinality({i \in DOMAIN s : s[i] = x})

Range(s) == {s[i] : i \in DOMAIN s}

\* The history after the calls ran one after the other, in some order.
SequentialOutcomes ==
    {[i \in 1..NumProcs |-> loc[f[i]].trace] \o hist0 : f \in Permutations(Procs)}

\* The final history holds every earlier trace and every captured trace as
\* often as it was recorded: nothing lost, nothing duplicated.
NothingLostOrDuplicated ==
    \A x \in Range(History(heap[1])) \cup Range(hist0)
                \cup {loc[p].trace : p \in Procs} :
        Count(History(heap[1]), x) =
            Count(hist0, x) + Cardinality({p \in Procs : loc[p].trace = x})

\* C9: concurrent Wrap* calls on one *CustomError are unsafe.  Once all have
\* returned, the object shows the trace of one of them and between 1 and
\* NumProcs new lines; an outcome that is not the result of running the calls
\* in some sequential order has lost or duplicated a trace, and such an
\* outcome is reachable (C9_LostTrace).
C9_RaceOutcomes ==
    AllDone =>
        /\ heap[1].Trace \in {loc[p].trace : p \in Procs}
        /\ Len(History(heap[1])) >= Len(hist0) + 1
        /\ Len(History(heap[1])) <= Len(hist0) + NumProcs
        /\ Len(Lines(PrintTrace(heap[1]))) = 1 + Len(heap[1].PreviousTraces)
        /\ CauseOf(heap[1]) = Plain(1)
        /\ History(heap[1]) \notin SequentialOutcomes => ~NothingLostOrDuplicated

C9_LostTrace ==
    /\ AllDone
    /\ History(heap[1]) \notin SequentialOutcomes
    /\ 1 + Len(heap[1].PreviousTraces) < Len(hist0) + NumProcs
====
